---- MODULE Spec2Model ----
(***************************************************************************)
(* Single-instance coordination of electron-hta (src/index.js): launches   *)
(* of the application are independent OS processes that share a lock       *)
(* record and a comm record through the file system.  Every file-system or *)
(* process-table call of a launch is one step, so that the calls of        *)
(* different processes interleave as the operating system lets them.       *)
(***************************************************************************)
EXTENDS Integers, Sequences, FiniteSets, TLC

(* ---- bounds ---- *)

MaxIdLen == 3
NumLaunches == 2
MaxCommLen == 3

Launches == 1..NumLaunches

(* ---- program constants and environment ---- *)
PROCESS_NAME == "electron-hta"
OTHER_NAME == "other-program"
NoKey == "null"
Keys == {NoKey, "demo"}
NL == "\n"
FOCUS == "focus"
Symbols == {FOCUS, "x", NL}

(* process.pid of a launch; pids of processes outside the model *)
Pid(l) == l
DeadPid == NumLaunches + 1
ForeignPid == NumLaunches + 2

Absent == [kind |-> "absent"]
Directory == [kind |-> "dir"]
File(b) == [kind |-> "file", body |-> b]
Null == [pid |-> 0, name |-> "null"]

DirStates == {"absent", "file", "dir"}

RECURSIVE SeqsUpTo(_)
SeqsUpTo(n) ==
  IF n = 0 THEN {<<>>}
  ELSE LET s == SeqsUpTo(n - 1)
       IN  s \cup {Append(t, c) : t \in {u \in s : Len(u) = n - 1}, c \in Symbols}

(* the sequences over a set of characters, up to a length *)
RECURSIVE SeqsOver(_, _)
SeqsOver(chars, n) ==
  IF n = 0 THEN {<<>>}
  ELSE LET shorter == SeqsOver(chars, n - 1)
       IN  shorter \cup {Append(w, c) : w \in shorter, c \in chars}

CommContents == SeqsUpTo(MaxCommLen)

VARIABLES
  locksDir, commsDir,   \* LOCKS_DIR, COMMS_DIR: "absent", "file" or "dir"
  lock,                 \* the lock record of the instance id
  comm,                 \* the comm record of the instance id
  procs,                \* OS process table: pid -> process name
  pc,                   \* position of each launch
  singleton,            \* argv.singleton of each launch
  role,                 \* "none", "WINNER" (isLocked = false) or "LOSER"
  pidRead,              \* const pid = fs.readFileSync(lockFile)
  readyFired,           \* the 'ready' event was emitted
  win,                  \* let win: TRUE when it refers to a window
  watching,             \* chokidar watcher on commFile is installed
  events,               \* add/change events queued for the watcher
  quitHook,             \* app.once('quit', onQuit) with the cleanup is registered
  content,              \* const content of the handler that is running
  lastDispatch,         \* indexes of the tokens the running handler dispatched
  err,                  \* exception that ended the main routine or a handler
  exitCode,             \* exit status, -1 while running
  observed,             \* what the probe met: history of the environment
  wrote,                \* bodies this launch wrote to the lock record
  sent,                 \* writes of this launch to the comm record: content before, content after
  cleaned,              \* records found gone right after this launch removed them; "nolock", "nocomm": already gone before
  after,                \* launched after a WINNER's shutdown, undisturbed since
  tok,                  \* what became of the focus token each launch sent
  lastWriter,           \* launch whose write made the present lock record, 0 when none did
  overlapped,           \* two launches were between their probe and their write or send at once
  watchErr,             \* a handler of this launch threw: "thrown", then "recovered" by a later dispatch
  idArgs,               \* two (singleton, USER) pairs given to the instance id
  ids,                  \* the instance ids computed for idArgs
  readyHook,            \* src/app/main.js: app.on('ready', createWindow) is registered
  focusCalls            \* methods the running handler called through focusApp()

fsVars == <<locksDir, commsDir, lock, comm, procs>>
procVars == <<pc, singleton, role, pidRead, readyFired, win, watching, events,
              quitHook, content, lastDispatch, err, exitCode, readyHook, focusCalls>>
histVars == <<observed, wrote, sent, cleaned, after, tok, lastWriter, overlapped, watchErr>>
vars == <<fsVars, procVars, histVars, idArgs, ids>>

(* ---- pure functions of the program ---- *)

(* the pid of the parent process written in place of process.pid *)
LockBodyParent(l) == ToString(Pid(l) - 1)

(* process.pid as fs.writeFileSync stores it: the decimal string *)
LockBody(l) == ToString(Pid(l))

(* findprocess('pid', pid): the rows of the process table with that pid *)
ProcessList(table, pidStr) ==
  {[pid |-> p, name |-> table[p]] : p \in {q \in DOMAIN table : ToString(q) = pidStr}}

(* findProcess(pid): list.length ? list[0] : null *)
findProcess(table, pidStr) ==
  LET list == ProcessList(table, pidStr)
  IN  IF list # {} THEN CHOOSE r \in list : TRUE ELSE Null

(* the comparison of src/app/main.js, proc.name === 'electron' *)
IsRunningInstanceElectron(proc) == proc # Null /\ proc.name = "electron"

(* any process with the recorded pid counts as the owner *)
IsRunningInstanceAnyName(proc) == proc # Null

(* proc && proc.name === PROCESS_NAME *)
IsRunningInstance(proc) == proc # Null /\ proc.name = PROCESS_NAME

(* the elements of a sequence *)
Range(q) == {q[i] : i \in 1..Len(q)}

(* os.platform() of the machine *)
Platforms == {"win32", "linux"}

(* a focusApp that does not test the window reference *)
focusAppUnguarded(w, platform) ==
  <<"app.focus">>
    \o (IF platform = "win32" THEN <<"win.minimize">> ELSE <<>>)
    \o <<"win.focus">>

(* lines 263-274: focusApp(): app.focus(), and with a window win.minimize() on
   win32 and win.focus(); the methods in the order they are called *)
focusApp(w, platform) ==
  <<"app.focus">>
    \o (IF w
        THEN (IF platform = "win32" THEN <<"win.minimize">> ELSE <<>>) \o <<"win.focus">>
        ELSE <<>>)

(* fs.writeFileSync(commFile, 'focus\n'): the new content of the comm record *)
SendContent(old) == <<FOCUS, NL>>

(* forceCreateDirectory(dir): the state of dir when no call throws *)
forceCreateDirectory(d) == "dir"

(* content.split('\n'): the pieces between newlines, empty ones included *)
RECURSIVE Split(_)
Split(s) ==
  IF s = <<>> THEN << <<>> >>
  ELSE IF Head(s) = NL THEN << <<>> >> \o Split(Tail(s))
  ELSE LET r == Split(Tail(s))
       IN  << <<Head(s)>> \o r[1] >> \o Tail(r)

(* const actions = content ? content.split('\n') : null  (<<>> for null) *)
Actions(text) == IF text # <<>> THEN Split(text) ELSE <<>>

(* a loop that calls focusApp() for every non-empty token *)
RECURSIVE DispatchAnyFrom(_, _)
DispatchAnyFrom(actions, i) ==
  IF i > Len(actions) THEN <<>>
  ELSE (IF actions[i] # <<>> THEN <<i>> ELSE <<>>) \o DispatchAnyFrom(actions, i + 1)

onCommFileChangeAny(text) == DispatchAnyFrom(Actions(text), 1)

(* the loop of onCommFileChange: the indexes i with actions[i] === 'focus',
   in the order in which focusApp() is called for them *)
RECURSIVE DispatchFrom(_, _)
DispatchFrom(actions, i) ==
  IF i > Len(actions) THEN <<>>
  ELSE (IF actions[i] = <<FOCUS>> THEN <<i>> ELSE <<>>) \o DispatchFrom(actions, i + 1)

onCommFileChange(text) == DispatchFrom(Actions(text), 1)

(* ---- initial state ---- *)

StaleBodies == {ToString(DeadPid), ToString(ForeignPid)}

Init ==
  /\ locksDir \in DirStates
  /\ commsDir \in DirStates
  /\ lock \in IF locksDir = "dir"
              THEN {Absent, Directory} \cup {File(b) : b \in StaleBodies}
              ELSE {Absent}
  /\ comm \in IF commsDir = "dir" THEN {Absent, File(<<FOCUS, NL>>)} ELSE {Absent}
  /\ procs = (ForeignPid :> OTHER_NAME)
  /\ pc = [l \in Launches |-> "init"]
  /\ singleton = [l \in Launches |-> NoKey]
  /\ role = [l \in Launches |-> "none"]
  /\ pidRead = [l \in Launches |-> ""]
  /\ readyFired = [l \in Launches |-> FALSE]
  /\ win = [l \in Launches |-> FALSE]
  /\ watching = [l \in Launches |-> FALSE]
  /\ events = [l \in Launches |-> 0]
  /\ quitHook = [l \in Launches |-> FALSE]
  /\ content = [l \in Launches |-> <<>>]
  /\ lastDispatch = [l \in Launches |-> <<>>]
  /\ err = [l \in Launches |-> "none"]
  /\ exitCode = [l \in Launches |-> -1]
  /\ observed = [l \in Launches |-> "none"]
  /\ wrote = [l \in Launches |-> <<>>]
  /\ sent = [l \in Launches |-> <<>>]
  /\ cleaned = [l \in Launches |-> {}]
  /\ after = [l \in Launches |-> FALSE]
  /\ tok = [l \in Launches |-> "none"]
  /\ lastWriter = 0
  /\ overlapped = FALSE
  /\ watchErr = [l \in Launches |-> "none"]
  /\ idArgs = <<>>
  /\ ids = <<>>
  /\ readyHook = [l \in Launches |-> FALSE]
  /\ focusCalls = [l \in Launches |-> {}]

(* ---- helpers ---- *)

Running(l) == pc[l] \notin {"init", "done"}
InMain(l) == pc[l] \in {"main", "probe", "stat", "read", "lookup", "reclaim", "write",
                        "watch", "send"}
Undecided(l) == Running(l) /\ InMain(l) /\ role[l] = "none"
Drop(table, p) == [q \in DOMAIN table \ {p} |-> table[q]]

(* the main routine throws: the promise of the async function is rejected,
   nothing handles it, and the process goes on with its event loop *)
Throw(l, e) ==
  /\ err' = [err EXCEPT ![l] = e]
  /\ pc' = [pc EXCEPT ![l] = "idle"]

(* app.quit() with every window closed: the 'close' handler of the window
   resets win, the process ends with the status of app.quit() *)
AppQuitStatus == 0

Terminate(l) ==
  /\ pc' = [pc EXCEPT ![l] = "done"]
  /\ exitCode' = [exitCode EXCEPT ![l] = AppQuitStatus]
  /\ procs' = Drop(procs, Pid(l))
  /\ win' = [win EXCEPT ![l] = FALSE]
  /\ watching' = [watching EXCEPT ![l] = FALSE]

(* WINNERs whose watcher is installed and whose process is serving events *)
Watchers == {w \in Launches : watching[w] /\ pc[w] \in {"idle", "drain"}}

(* ---- the operating system starts a launch ---- *)

Launch(l) ==
  /\ pc[l] = "init"
  /\ pc' = [pc EXCEPT ![l] = "main"]
  /\ \E k \in Keys : singleton' = [singleton EXCEPT ![l] = k]
  /\ procs' = (Pid(l) :> PROCESS_NAME) @@ procs
  /\ after' = [m \in Launches |->
                 IF m = l
                 THEN /\ \E w \in Launches : pc[w] = "done" /\ quitHook[w]
                      /\ \A o \in Launches \ {l} : pc[o] \in {"init", "done"}
                 ELSE after[m] /\ ~Undecided(m)]
  /\ UNCHANGED <<focusCalls, readyHook, ids, idArgs, watchErr, overlapped, lastWriter, locksDir, commsDir, lock, comm, role, pidRead, readyFired, win,
                 watching, events, quitHook, content, lastDispatch, err, exitCode,
                 observed, wrote, sent, cleaned, tok>>

(* ---- main routine, src/index.js 276-397 ---- *)

(* a main routine that enters the singleton branch whatever the key is *)
MainSetupAnyKey(l) ==
  /\ pc[l] = "main"
  /\ \E failed \in {"none", "locks", "comms"} :
       /\ failed = "locks" => locksDir # "dir"
       /\ failed = "comms" => commsDir # "dir"
       /\ locksDir' = IF failed = "locks" THEN "absent"
                      ELSE forceCreateDirectory(locksDir)
       /\ commsDir' = IF failed = "locks" THEN commsDir
                      ELSE IF failed = "comms" THEN "absent"
                      ELSE forceCreateDirectory(commsDir)
       /\ IF failed = "none"
          THEN pc' = [pc EXCEPT ![l] = "probe"] /\ UNCHANGED err
          ELSE Throw(l, "dir")
  /\ UNCHANGED <<focusCalls, readyHook, ids, idArgs, watchErr, overlapped, lastWriter, lock, comm, procs, singleton, role, pidRead, readyFired, win,
                 watching, events, quitHook, content, lastDispatch, exitCode,
                 observed, wrote, sent, cleaned, after, tok>>

(* lines 276-291 and 391-397: the handlers are registered, then either the two
   directories are created or the launch has no singleton key *)
MainSetup(l) ==
  /\ pc[l] = "main"
  /\ IF singleton[l] = NoKey
     THEN /\ pc' = [pc EXCEPT ![l] = "idle"]
          /\ UNCHANGED <<locksDir, commsDir, err>>
     ELSE \E failed \in {"none", "locks", "comms"} :
            /\ failed = "locks" => locksDir # "dir"
            /\ failed = "comms" => commsDir # "dir"
            /\ locksDir' = IF failed = "locks" THEN "absent"
                           ELSE forceCreateDirectory(locksDir)
            /\ commsDir' = IF failed = "locks" THEN commsDir
                           ELSE IF failed = "comms" THEN "absent"
                           ELSE forceCreateDirectory(commsDir)
            /\ IF failed = "none"
               THEN pc' = [pc EXCEPT ![l] = "probe"] /\ UNCHANGED err
               ELSE Throw(l, "dir")
  /\ UNCHANGED <<focusCalls, readyHook, ids, idArgs, watchErr, overlapped, lastWriter, lock, comm, procs, singleton, role, pidRead, readyFired, win,
                 watching, events, quitHook, content, lastDispatch, exitCode,
                 observed, wrote, sent, cleaned, after, tok>>

(* between existsSync(lockFile) and the end of the write of the lock record or
   of the focus command *)
InSequence(l) == pc[l] \in {"stat", "read", "lookup", "reclaim", "write", "send"}

(* line 306: fs.existsSync(lockFile); lines 338-340 when it does not exist *)
Probe(l) ==
  /\ pc[l] = "probe"
  /\ overlapped' = (overlapped \/ \E m \in Launches \ {l} : InSequence(m))
  /\ IF lock.kind = "absent"
     THEN /\ pc' = [pc EXCEPT ![l] = "write"]
          /\ role' = [role EXCEPT ![l] = "WINNER"]
          /\ observed' = [observed EXCEPT ![l] = "Absent"]
     ELSE /\ pc' = [pc EXCEPT ![l] = "stat"]
          /\ UNCHANGED <<role, observed>>
  /\ UNCHANGED <<focusCalls, readyHook, ids, idArgs, watchErr, lastWriter, fsVars, singleton, pidRead, readyFired, win, watching, events,
                 quitHook, content, lastDispatch, err, exitCode, wrote, sent, cleaned, after, tok>>

(* a probe that takes whatever exists at the lock path for a lock record *)
StatAnyKind(l) ==
  /\ pc[l] = "stat"
  /\ CASE lock.kind = "absent" -> Throw(l, "stat") /\ UNCHANGED observed
       [] lock.kind = "dir" -> /\ pc' = [pc EXCEPT ![l] = "read"]
                               /\ observed' = [observed EXCEPT ![l] = "Malformed"]
                               /\ UNCHANGED err
       [] lock.kind = "file" -> /\ pc' = [pc EXCEPT ![l] = "read"]
                                /\ UNCHANGED <<observed, err>>
  /\ UNCHANGED <<focusCalls, readyHook, ids, idArgs, watchErr, overlapped, lastWriter, fsVars, singleton, role, pidRead, readyFired, win, watching, events,
                 quitHook, content, lastDispatch, exitCode, wrote, sent, cleaned, after, tok>>

(* line 309: fs.statSync(lockFile).isFile() *)
Stat(l) ==
  /\ pc[l] = "stat"
  /\ CASE lock.kind = "absent" -> Throw(l, "stat") /\ UNCHANGED observed
       [] lock.kind = "dir" -> /\ pc' = [pc EXCEPT ![l] = "reclaim"]
                               /\ observed' = [observed EXCEPT ![l] = "Malformed"]
                               /\ UNCHANGED err
       [] lock.kind = "file" -> /\ pc' = [pc EXCEPT ![l] = "read"]
                                /\ UNCHANGED <<observed, err>>
  /\ UNCHANGED <<focusCalls, readyHook, ids, idArgs, watchErr, overlapped, lastWriter, fsVars, singleton, role, pidRead, readyFired, win, watching, events,
                 quitHook, content, lastDispatch, exitCode, wrote, sent, cleaned, after, tok>>

(* line 319: fs.readFileSync(lockFile, 'utf8'), which may throw *)
Read(l) ==
  /\ pc[l] = "read"
  /\ \E ok \in BOOLEAN :
       IF ok /\ lock.kind = "file"
       THEN /\ pidRead' = [pidRead EXCEPT ![l] = lock.body]
            /\ pc' = [pc EXCEPT ![l] = "lookup"]
            /\ UNCHANGED err
       ELSE Throw(l, "read") /\ UNCHANGED pidRead
  /\ UNCHANGED <<focusCalls, readyHook, ids, idArgs, watchErr, overlapped, lastWriter, fsVars, singleton, role, readyFired, win, watching, events,
                 quitHook, content, lastDispatch, exitCode, observed, wrote, sent, cleaned, after, tok>>

(* what the process table holds for a recorded pid *)
Owner(table, pidStr) ==
  IF \A p \in DOMAIN table : ToString(p) # pidStr THEN "Dead"
  ELSE IF \E p \in DOMAIN table : ToString(p) = pidStr /\ table[p] = PROCESS_NAME
       THEN "Live" ELSE "Foreign"

(* lines 321-323: await findProcess(pid) settles; the query may reject *)
Lookup(l) ==
  /\ pc[l] = "lookup"
  /\ \E ok \in BOOLEAN :
       IF ~ok
       THEN /\ Throw(l, "query")
            /\ observed' = [observed EXCEPT ![l] = "QueryError"]
            /\ pidRead' = [pidRead EXCEPT ![l] = ""]
            /\ UNCHANGED role
       ELSE LET proc == findProcess(procs, pidRead[l])
            IN  /\ observed' = [observed EXCEPT ![l] = Owner(procs, pidRead[l])]
                /\ IF IsRunningInstance(proc)
                   THEN /\ role' = [role EXCEPT ![l] = "LOSER"]
                        /\ pc' = [pc EXCEPT ![l] = "send"]
                        /\ UNCHANGED pidRead
                   ELSE /\ pc' = [pc EXCEPT ![l] = "reclaim"]
                        /\ pidRead' = [pidRead EXCEPT ![l] = ""]
                        /\ UNCHANGED role
                /\ UNCHANGED err
  /\ UNCHANGED <<focusCalls, readyHook, ids, idArgs, watchErr, overlapped, lastWriter, fsVars, singleton, readyFired, win, watching, events,
                 quitHook, content, lastDispatch, exitCode, wrote, sent, cleaned, after, tok>>

(* a removal that fails on a path that does not exist, as fs.unlinkSync does *)
unlinkSync(rec) == [rec |-> Absent, threw |-> rec.kind = "absent"]

(* rimraf.sync(path): the path is gone afterwards, and a path that does not
   exist is not an error *)
rimrafSync(rec) == [rec |-> Absent, threw |-> FALSE]

(* lines 311-312 and 334-335: rimraf.sync(lockFile); isLocked = false *)
Reclaim(l) ==
  /\ pc[l] = "reclaim"
  /\ lastWriter' = 0
  /\ LET r == rimrafSync(lock)
     IN  /\ lock' = r.rec
         /\ IF r.threw
            THEN Throw(l, "rimraf") /\ UNCHANGED <<cleaned, role>>
            ELSE /\ cleaned' = [cleaned EXCEPT ![l] =
                                  @ \cup (IF lock'.kind = "absent" THEN {"stale"} ELSE {})]
                 /\ role' = [role EXCEPT ![l] = "WINNER"]
                 /\ pc' = [pc EXCEPT ![l] = "write"]
                 /\ UNCHANGED err
  /\ UNCHANGED <<focusCalls, readyHook, ids, idArgs, watchErr, overlapped, locksDir, commsDir, comm, procs, singleton, pidRead, readyFired, win,
                 watching, events, quitHook, content, lastDispatch, exitCode,
                 observed, wrote, sent, after, tok>>

(* a write that leaves a lock record that already exists as it is *)
WriteLockKeepFirst(l) ==
  /\ pc[l] = "write"
  /\ \E ok \in BOOLEAN :
       IF ok
       THEN /\ lock' = IF lock.kind = "file" THEN lock ELSE File(LockBody(l))
            /\ lastWriter' = l
            /\ wrote' = [wrote EXCEPT ![l] = Append(@, LockBody(l))]
            /\ pc' = [pc EXCEPT ![l] = "watch"]
            /\ UNCHANGED err
       ELSE Throw(l, "write") /\ UNCHANGED <<lock, wrote, lastWriter>>
  /\ UNCHANGED <<focusCalls, readyHook, ids, idArgs, watchErr, overlapped, locksDir, commsDir, comm, procs, singleton, role, pidRead,
                 readyFired, win, watching, events, quitHook, content,
                 lastDispatch, exitCode, observed, sent, cleaned, after, tok>>

(* line 347: fs.writeFileSync(lockFile, process.pid, callback): the callback is
   never called, a failure is thrown *)
WriteLock(l) ==
  /\ pc[l] = "write"
  /\ \E ok \in BOOLEAN :
       IF ok
       THEN /\ lock' = File(LockBody(l))
            /\ lastWriter' = l
            /\ wrote' = [wrote EXCEPT ![l] = Append(@, lock'.body)]
            /\ pc' = [pc EXCEPT ![l] = "watch"]
            /\ UNCHANGED err
       ELSE Throw(l, "write") /\ UNCHANGED <<lock, wrote, lastWriter>>
  /\ UNCHANGED <<focusCalls, readyHook, ids, idArgs, watchErr, overlapped, locksDir, commsDir, comm, procs, singleton, role, pidRead,
                 readyFired, win, watching, events, quitHook, content,
                 lastDispatch, exitCode, observed, sent, cleaned, after, tok>>

(* lines 374-388: the watcher and the cleanup handler are installed; the
   watcher reports a comm record that already exists as 'add' *)
Watch(l) ==
  /\ pc[l] = "watch"
  /\ watching' = [watching EXCEPT ![l] = TRUE]
  /\ events' = [events EXCEPT ![l] = IF comm.kind = "file" THEN 1 ELSE 0]
  /\ quitHook' = [quitHook EXCEPT ![l] = TRUE]
  /\ pc' = [pc EXCEPT ![l] = "idle"]
  /\ UNCHANGED <<focusCalls, readyHook, ids, idArgs, watchErr, overlapped, lastWriter, fsVars, singleton, role, pidRead, readyFired, win, content,
                 lastDispatch, err, exitCode, histVars>>

(* the launch whose pid the lock record named is up and has not begun to quit *)
OwnerRunning(pidStr) ==
  \E w \in Launches : ToString(Pid(w)) = pidStr /\ pc[w] \in {"watch", "idle", "drain"}

(* a LOSER whose app.quit() runs the cleanup of the lock record as well, as it
   would with onQuit registered ahead of the probe *)
SendReleasing(l) ==
  /\ pc[l] = "send"
  /\ \E ok \in BOOLEAN :
       IF ok
       THEN LET old == IF comm.kind = "file" THEN comm.body ELSE <<>>
                new == SendContent(old)
            IN  /\ comm' = File(new)
                /\ sent' = [sent EXCEPT ![l] = Append(@, [before |-> old, written |-> comm'.body])]
                /\ tok' = [tok EXCEPT ![l] = IF OwnerRunning(pidRead[l])
                                             THEN "infile" ELSE "moot"]
                /\ events' = [w \in Launches |->
                                IF w = l THEN 0
                                ELSE IF w \in Watchers THEN events[w] + 1 ELSE events[w]]
                /\ pidRead' = [pidRead EXCEPT ![l] = ""]
                /\ lock' = rimrafSync(lock).rec
                /\ lastWriter' = 0
                /\ cleaned' = [cleaned EXCEPT ![l] = @ \cup {"lock"}]
                /\ Terminate(l)
                /\ UNCHANGED err
       ELSE /\ Throw(l, "send")
            /\ pidRead' = [pidRead EXCEPT ![l] = ""]
            /\ UNCHANGED <<comm, sent, tok, events, exitCode, procs, win, watching,
                           lock, lastWriter, cleaned>>
  /\ UNCHANGED <<focusCalls, readyHook, ids, idArgs, watchErr, overlapped, locksDir, commsDir, singleton,
                 role, readyFired, quitHook, content, lastDispatch, observed, wrote, after>>

(* lines 326-328: fs.writeFileSync(commFile, 'focus\n'); app.quit(); return *)
Send(l) ==
  /\ pc[l] = "send"
  /\ \E ok \in BOOLEAN :
       IF ok
       THEN LET old == IF comm.kind = "file" THEN comm.body ELSE <<>>
                new == SendContent(old)
            IN  /\ comm' = File(new)
                /\ sent' = [sent EXCEPT ![l] = Append(@, [before |-> old, written |-> comm'.body])]
                /\ tok' = [tok EXCEPT ![l] = IF OwnerRunning(pidRead[l])
                                             THEN "infile" ELSE "moot"]
                /\ events' = [w \in Launches |->
                                IF w = l THEN 0
                                ELSE IF w \in Watchers THEN events[w] + 1 ELSE events[w]]
                /\ pidRead' = [pidRead EXCEPT ![l] = ""]
                /\ Terminate(l)
                /\ UNCHANGED err
       ELSE /\ Throw(l, "send")
            /\ pidRead' = [pidRead EXCEPT ![l] = ""]
            /\ UNCHANGED <<comm, sent, tok, events, exitCode, procs, win, watching>>
  /\ UNCHANGED <<focusCalls, readyHook, ids, idArgs, watchErr, overlapped, lastWriter, locksDir, commsDir, lock, singleton, role, readyFired, quitHook,
                 content, lastDispatch, observed, wrote, cleaned, after>>

(* ---- events of a running process ---- *)

(* 'ready' runs createWindow (lines 215-261) once the JavaScript thread is
   free: while the main routine awaits, or after it has returned or thrown *)
Ready(l) ==
  /\ pc[l] \in {"lookup", "idle"}
  /\ ~readyFired[l]
  /\ readyFired' = [readyFired EXCEPT ![l] = TRUE]
  /\ win' = [win EXCEPT ![l] = TRUE]
  /\ UNCHANGED <<focusCalls, readyHook, ids, idArgs, watchErr, overlapped, lastWriter, fsVars, pc, singleton, role, pidRead, watching, events, quitHook,
                 content, lastDispatch, err, exitCode, histVars>>

(* the user closes the window: lines 240-243 reset win, 'window-all-closed'
   calls app.quit() (277-280), 'quit' runs onQuit when it is registered *)
CloseWindow(l) ==
  /\ pc[l] \in {"lookup", "idle"}
  /\ win[l]
  /\ IF quitHook[l]
     THEN /\ pc' = [pc EXCEPT ![l] = "quit_lock"]
          /\ win' = [win EXCEPT ![l] = FALSE]
          /\ UNCHANGED <<exitCode, procs, watching>>
     ELSE Terminate(l)
  /\ events' = [events EXCEPT ![l] = 0]
  /\ pidRead' = [pidRead EXCEPT ![l] = ""]
  /\ UNCHANGED <<focusCalls, readyHook, ids, idArgs, watchErr, overlapped, lastWriter, locksDir, commsDir, lock, comm, singleton, role, readyFired,
                 quitHook, content, lastDispatch, err, histVars>>

(* line 382: rimraf.sync(lockFile) *)
QuitLock(l) ==
  /\ pc[l] = "quit_lock"
  /\ lastWriter' = 0
  /\ LET r == rimrafSync(lock)
     IN  /\ lock' = r.rec
         /\ cleaned' = [cleaned EXCEPT ![l] =
                          @ \cup (IF lock'.kind = "absent" THEN {"lock"} ELSE {})
                            \cup (IF lock.kind = "absent" THEN {"nolock"} ELSE {})]
         /\ IF r.threw
            THEN /\ err' = [err EXCEPT ![l] = "quit"]
                 /\ Terminate(l)
            ELSE /\ pc' = [pc EXCEPT ![l] = "quit_comm"]
                 /\ UNCHANGED <<procs, win, watching, err, exitCode>>
  /\ UNCHANGED <<focusCalls, readyHook, ids, idArgs, watchErr, overlapped, locksDir, commsDir, comm, singleton, role, pidRead, readyFired,
                 events, quitHook, content, lastDispatch,
                 observed, wrote, sent, after, tok>>

(* an onQuit that removes the lock record only, as src/app/main.js does *)
QuitCommKeep(l) ==
  /\ pc[l] = "quit_comm"
  /\ comm' = comm
  /\ cleaned' = [cleaned EXCEPT ![l] = @ \cup (IF comm'.kind = "absent" THEN {"comm"} ELSE {})]
  /\ Terminate(l)
  /\ UNCHANGED <<focusCalls, readyHook, ids, idArgs, watchErr, overlapped, lastWriter, locksDir, commsDir, lock, singleton, role, pidRead, readyFired,
                 events, quitHook, content, lastDispatch, err, observed, wrote,
                 sent, after, tok>>

(* line 383: rimraf.sync(commFile); the process then ends *)
QuitComm(l) ==
  /\ pc[l] = "quit_comm"
  /\ LET r == rimrafSync(comm)
     IN  /\ comm' = r.rec
         /\ cleaned' = [cleaned EXCEPT ![l] =
                          @ \cup (IF comm'.kind = "absent" THEN {"comm"} ELSE {})
                            \cup (IF comm.kind = "absent" THEN {"nocomm"} ELSE {})]
         /\ err' = [err EXCEPT ![l] = IF r.threw THEN "quit" ELSE @]
  /\ tok' = [m \in Launches |-> IF tok[m] = "infile" THEN "moot" ELSE tok[m]]
  /\ Terminate(l)
  /\ UNCHANGED <<focusCalls, readyHook, ids, idArgs, watchErr, overlapped, lastWriter, locksDir, commsDir, lock, singleton, role, pidRead, readyFired,
                 events, quitHook, content, lastDispatch, observed, wrote,
                 sent, after>>

(* a handler whose exception ends the process, as an uncaught exception
   does outside Electron *)
HandleReadFatal(l) ==
  /\ pc[l] = "idle"
  /\ watching[l]
  /\ events[l] > 0
  /\ events' = [events EXCEPT ![l] = @ - 1]
  /\ IF comm.kind = "file"
     THEN LET calls == onCommFileChange(comm.body)
          IN  /\ content' = [content EXCEPT ![l] = comm.body]
              /\ lastDispatch' = [lastDispatch EXCEPT ![l] = calls]
              /\ tok' = [m \in Launches |->
                           IF tok[m] = "infile" /\ calls # <<>> THEN "dispatched"
                           ELSE tok[m]]
              /\ watchErr' = [watchErr EXCEPT ![l] =
                                IF @ = "thrown" /\ calls # <<>> THEN "recovered" ELSE @]
              /\ \E platform \in Platforms :
                   focusCalls' = [focusCalls EXCEPT ![l] =
                                    IF calls # <<>> THEN Range(focusApp(win[l], platform))
                                    ELSE {}]
              /\ pc' = [pc EXCEPT ![l] = "drain"]
              /\ UNCHANGED <<procs, win, watching, exitCode>>
     ELSE /\ watchErr' = [watchErr EXCEPT ![l] = "thrown"]
          /\ Terminate(l)
          /\ UNCHANGED <<content, lastDispatch, tok, focusCalls>>
  /\ UNCHANGED <<readyHook, ids, idArgs, overlapped, lastWriter, locksDir, commsDir, lock, comm, singleton, role, pidRead,
                 readyFired, quitHook, err, observed, wrote, sent, cleaned, after>>

(* lines 361-370: the watcher delivers 'add' or 'change'; the handler reads
   the record and calls focusApp() for the focus tokens.  When the record is
   gone readFileSync throws and the handler ends there: the exception leaves
   the listener, Electron reports it and the process goes on. *)
HandleRead(l) ==
  /\ pc[l] = "idle"
  /\ watching[l]
  /\ events[l] > 0
  /\ events' = [events EXCEPT ![l] = @ - 1]
  /\ IF comm.kind = "file"
     THEN LET calls == onCommFileChange(comm.body)
          IN  /\ content' = [content EXCEPT ![l] = comm.body]
              /\ lastDispatch' = [lastDispatch EXCEPT ![l] = calls]
              /\ tok' = [m \in Launches |->
                           IF tok[m] = "infile" /\ calls # <<>> THEN "dispatched"
                           ELSE tok[m]]
              /\ watchErr' = [watchErr EXCEPT ![l] =
                                IF @ = "thrown" /\ calls # <<>> THEN "recovered" ELSE @]
              /\ \E platform \in Platforms :
                   focusCalls' = [focusCalls EXCEPT ![l] =
                                    IF calls # <<>> THEN Range(focusApp(win[l], platform))
                                    ELSE {}]
              /\ pc' = [pc EXCEPT ![l] = "drain"]
     ELSE /\ watchErr' = [watchErr EXCEPT ![l] = "thrown"]
          /\ UNCHANGED <<content, lastDispatch, tok, pc, focusCalls>>
  /\ UNCHANGED <<readyHook, ids, idArgs, overlapped, lastWriter, fsVars, singleton, role, pidRead, readyFired, win, watching,
                 quitHook, err, exitCode, observed, wrote, sent, cleaned, after>>

(* line 371: rimraf.sync(path); the handler returns *)
Drain(l) ==
  /\ pc[l] = "drain"
  /\ comm' = rimrafSync(comm).rec
  /\ tok' = [m \in Launches |-> IF tok[m] = "infile" THEN "lost" ELSE tok[m]]
  /\ content' = [content EXCEPT ![l] = <<>>]
  /\ lastDispatch' = [lastDispatch EXCEPT ![l] = <<>>]
  /\ focusCalls' = [focusCalls EXCEPT ![l] = {}]
  /\ pc' = [pc EXCEPT ![l] = "idle"]
  /\ UNCHANGED <<readyHook, ids, idArgs, watchErr, overlapped, lastWriter, locksDir, commsDir, lock, procs, singleton, role, pidRead,
                 readyFired, win, watching, events, quitHook, err, exitCode,
                 observed, wrote, sent, cleaned, after>>

Next ==
  \E l \in Launches :
    \/ Launch(l)
    \/ MainSetup(l)
    \/ Probe(l)
    \/ Stat(l)
    \/ Read(l)
    \/ Lookup(l)
    \/ Reclaim(l)
    \/ WriteLock(l)
    \/ Watch(l)
    \/ Send(l)
    \/ Ready(l)
    \/ CloseWindow(l)
    \/ QuitLock(l)
    \/ QuitComm(l)
    \/ HandleRead(l)
    \/ Drain(l)

Spec == Init /\ [][Next]_vars


(* ---- the watcher of a running WINNER on any comm record ---- *)

(* a launch has gone through Launch, MainSetup, Probe, WriteLock and Watch
   alone, and the comm record holds any content *)
InitWatch ==
  /\ locksDir = "dir"
  /\ commsDir = "dir"
  /\ lock = File(LockBody(1))
  /\ comm \in {Absent} \cup {File(c) : c \in CommContents}
  /\ procs = (Pid(1) :> PROCESS_NAME) @@ (ForeignPid :> OTHER_NAME)
  /\ pc = [l \in Launches |-> IF l = 1 THEN "idle" ELSE "init"]
  /\ singleton = [l \in Launches |-> IF l = 1 THEN "demo" ELSE NoKey]
  /\ role = [l \in Launches |-> IF l = 1 THEN "WINNER" ELSE "none"]
  /\ pidRead = [l \in Launches |-> ""]
  /\ readyFired = [l \in Launches |-> FALSE]
  /\ win = [l \in Launches |-> FALSE]
  /\ watching = [l \in Launches |-> l = 1]
  /\ events = [l \in Launches |-> IF l = 1 /\ comm.kind = "file" THEN 1 ELSE 0]
  /\ quitHook = [l \in Launches |-> l = 1]
  /\ content = [l \in Launches |-> <<>>]
  /\ lastDispatch = [l \in Launches |-> <<>>]
  /\ err = [l \in Launches |-> "none"]
  /\ exitCode = [l \in Launches |-> -1]
  /\ observed = [l \in Launches |-> IF l = 1 THEN "Absent" ELSE "none"]
  /\ wrote = [l \in Launches |-> IF l = 1 THEN <<LockBody(1)>> ELSE <<>>]
  /\ sent = [l \in Launches |-> <<>>]
  /\ cleaned = [l \in Launches |-> {}]
  /\ after = [l \in Launches |-> FALSE]
  /\ tok = [l \in Launches |-> "none"]
  /\ lastWriter = 1
  /\ overlapped = FALSE
  /\ watchErr = [l \in Launches |-> "none"]
  /\ idArgs = <<>>
  /\ ids = <<>>
  /\ readyHook = [l \in Launches |-> FALSE]
  /\ focusCalls = [l \in Launches |-> {}]

NextWatch ==
  \E l \in Launches :
    \/ Ready(l)
    \/ HandleRead(l)
    \/ Drain(l)
    \/ CloseWindow(l)
    \/ QuitLock(l)
    \/ QuitComm(l)

SpecWatch == InitWatch /\ [][NextWatch]_vars


(* ---- a WINNER that already runs, with watch events still queued ---- *)

(* events chokidar may queue for one write: 'add' and 'change' *)
MaxEventsPerWrite == 2

(* launch 1 is a WINNER past lines 344-388; the comm record holds a focus
   command or was already removed by an earlier handler, and up to
   MaxEventsPerWrite events of the last write are still queued *)
InitRunning ==
  /\ locksDir = "dir"
  /\ commsDir = "dir"
  /\ lock = File(LockBody(1))
  /\ comm \in {Absent, File(SendContent(<<>>))}
  /\ procs = (Pid(1) :> PROCESS_NAME) @@ (ForeignPid :> OTHER_NAME)
  /\ pc = [l \in Launches |-> IF l = 1 THEN "idle" ELSE "init"]
  /\ singleton = [l \in Launches |-> IF l = 1 THEN "demo" ELSE NoKey]
  /\ role = [l \in Launches |-> IF l = 1 THEN "WINNER" ELSE "none"]
  /\ pidRead = [l \in Launches |-> ""]
  /\ readyFired \in {[l \in Launches |-> l = 1 /\ b] : b \in BOOLEAN}
  /\ win = readyFired
  /\ watching = [l \in Launches |-> l = 1]
  /\ \E n \in 0..MaxEventsPerWrite :
       /\ comm.kind = "file" => n >= 1
       /\ events = [l \in Launches |-> IF l = 1 THEN n ELSE 0]
  /\ quitHook = [l \in Launches |-> l = 1]
  /\ content = [l \in Launches |-> <<>>]
  /\ lastDispatch = [l \in Launches |-> <<>>]
  /\ err = [l \in Launches |-> "none"]
  /\ exitCode = [l \in Launches |-> -1]
  /\ observed = [l \in Launches |-> IF l = 1 THEN "Absent" ELSE "none"]
  /\ wrote = [l \in Launches |-> IF l = 1 THEN <<LockBody(1)>> ELSE <<>>]
  /\ sent = [l \in Launches |-> <<>>]
  /\ cleaned = [l \in Launches |-> {}]
  /\ after = [l \in Launches |-> FALSE]
  /\ tok = [l \in Launches |-> "none"]
  /\ lastWriter = 1
  /\ overlapped = FALSE
  /\ watchErr = [l \in Launches |-> "none"]
  /\ idArgs = <<>>
  /\ ids = <<>>
  /\ readyHook = [l \in Launches |-> FALSE]
  /\ focusCalls = [l \in Launches |-> {}]

SpecRunning == InitRunning /\ [][Next]_vars

(* ---- the instance id, src/index.js 293-297 ---- *)

(* keys and user names are strings over letters and the dot; they are not
   empty and neither begin nor end with a dot *)
IdChars == {"a", "."}
IdStrings ==
  {w \in SeqsOver(IdChars, MaxIdLen) : w # <<>> /\ w[1] # "." /\ w[Len(w)] # "."}

(* crypto.createHash('md5').update(str).digest('hex'), taken as free of
   collisions: the digest determines the string *)
md5hex(str) == [digest |-> str]

(* line 297: the template string `${singleton}.${USER}` and its hash *)
singletonId(key, user) == md5hex(key \o <<".">> \o user)

InitId ==
  /\ locksDir = "absent"
  /\ commsDir = "absent"
  /\ lock = Absent
  /\ comm = Absent
  /\ procs = (ForeignPid :> OTHER_NAME)
  /\ pc = [l \in Launches |-> "init"]
  /\ singleton = [l \in Launches |-> NoKey]
  /\ role = [l \in Launches |-> "none"]
  /\ pidRead = [l \in Launches |-> ""]
  /\ readyFired = [l \in Launches |-> FALSE]
  /\ win = [l \in Launches |-> FALSE]
  /\ watching = [l \in Launches |-> FALSE]
  /\ events = [l \in Launches |-> 0]
  /\ quitHook = [l \in Launches |-> FALSE]
  /\ content = [l \in Launches |-> <<>>]
  /\ lastDispatch = [l \in Launches |-> <<>>]
  /\ err = [l \in Launches |-> "none"]
  /\ exitCode = [l \in Launches |-> -1]
  /\ observed = [l \in Launches |-> "none"]
  /\ wrote = [l \in Launches |-> <<>>]
  /\ sent = [l \in Launches |-> <<>>]
  /\ cleaned = [l \in Launches |-> {}]
  /\ after = [l \in Launches |-> FALSE]
  /\ tok = [l \in Launches |-> "none"]
  /\ lastWriter = 0
  /\ overlapped = FALSE
  /\ watchErr = [l \in Launches |-> "none"]
  /\ idArgs \in {<<[key |-> k1, user |-> u1], [key |-> k2, user |-> u2]>> :
                   k1 \in IdStrings, u1 \in IdStrings, k2 \in IdStrings, u2 \in IdStrings}
  /\ ids = <<>>
  /\ readyHook = [l \in Launches |-> FALSE]
  /\ focusCalls = [l \in Launches |-> {}]

(* the two launches compute their instance ids *)
ComputeIds ==
  /\ ids = <<>>
  /\ ids' = <<singletonId(idArgs[1].key, idArgs[1].user),
              singletonId(idArgs[2].key, idArgs[2].user)>>
  /\ UNCHANGED <<fsVars, procVars, histVars, idArgs>>

SpecId == InitId /\ [][ComputeIds]_vars

(* ---- the main routine of src/app/main.js ---- *)

(* the process name src/app/main.js compares with, line 185 *)
ELECTRON_NAME == "electron"

(* process.exit(1) of lines 181 and 187 *)
AppExitStatus == 1

(* lines 103-112 *)
forceCreateDirectoryApp(d) == "dir"

(* line 185 reads proc.name: of a process row its name, of null a TypeError *)
ProcName(proc) == IF proc = Null THEN "TypeError" ELSE proc.name

(* what the process table holds for a recorded pid, for src/app/main.js *)
OwnerApp(table, pidStr) ==
  IF \A p \in DOMAIN table : ToString(p) # pidStr THEN "Dead"
  ELSE IF \E p \in DOMAIN table : ToString(p) = pidStr /\ table[p] = ELECTRON_NAME
       THEN "Live" ELSE "Foreign"

InitApp ==
  /\ locksDir \in DirStates
  /\ commsDir = "absent"
  /\ lock \in IF locksDir = "dir"
              THEN {Absent, Directory} \cup {File(b) : b \in StaleBodies}
              ELSE {Absent}
  /\ comm = Absent
  /\ procs = (ForeignPid :> OTHER_NAME)
  /\ pc = [l \in Launches |-> "init"]
  /\ singleton = [l \in Launches |-> NoKey]
  /\ role = [l \in Launches |-> "none"]
  /\ pidRead = [l \in Launches |-> ""]
  /\ readyFired = [l \in Launches |-> FALSE]
  /\ win = [l \in Launches |-> FALSE]
  /\ watching = [l \in Launches |-> FALSE]
  /\ events = [l \in Launches |-> 0]
  /\ quitHook = [l \in Launches |-> FALSE]
  /\ content = [l \in Launches |-> <<>>]
  /\ lastDispatch = [l \in Launches |-> <<>>]
  /\ err = [l \in Launches |-> "none"]
  /\ exitCode = [l \in Launches |-> -1]
  /\ observed = [l \in Launches |-> "none"]
  /\ wrote = [l \in Launches |-> <<>>]
  /\ sent = [l \in Launches |-> <<>>]
  /\ cleaned = [l \in Launches |-> {}]
  /\ after = [l \in Launches |-> FALSE]
  /\ tok = [l \in Launches |-> "none"]
  /\ lastWriter = 0
  /\ overlapped = FALSE
  /\ watchErr = [l \in Launches |-> "none"]
  /\ idArgs = <<>>
  /\ ids = <<>>
  /\ readyHook = [l \in Launches |-> FALSE]
  /\ focusCalls = [l \in Launches |-> {}]

(* what no step of src/app/main.js touches *)
appIdle == <<commsDir, comm, role, watching, events, quitHook, content, lastDispatch,
             sent, after, tok, lastWriter, overlapped, watchErr, idArgs, ids, focusCalls>>

(* the async main routine throws: nothing handles the rejection, the process
   stays, and what follows the throw is never run *)
AppThrow(l, e) ==
  /\ err' = [err EXCEPT ![l] = e]
  /\ pc' = [pc EXCEPT ![l] = "a_failed"]

(* electron app/main.js is started *)
AppLaunch(l) ==
  /\ pc[l] = "init"
  /\ pc' = [pc EXCEPT ![l] = "a_main"]
  /\ \E k \in Keys : singleton' = [singleton EXCEPT ![l] = k]
  /\ procs' = (Pid(l) :> ELECTRON_NAME) @@ procs
  /\ UNCHANGED <<appIdle, locksDir, lock, pidRead, readyFired, win, err, exitCode,
                 observed, wrote, cleaned, readyHook>>

(* lines 166-169, or lines 211-216 without a singleton key *)
AppMainSetup(l) ==
  /\ pc[l] = "a_main"
  /\ IF singleton[l] = NoKey
     THEN /\ readyHook' = [readyHook EXCEPT ![l] = TRUE]
          /\ pc' = [pc EXCEPT ![l] = "a_idle"]
          /\ UNCHANGED <<locksDir, err>>
     ELSE \E ok \in BOOLEAN :
            /\ ~ok => locksDir # "dir"
            /\ IF ok
               THEN /\ locksDir' = forceCreateDirectoryApp(locksDir)
                    /\ pc' = [pc EXCEPT ![l] = "a_probe"]
                    /\ UNCHANGED err
               ELSE /\ locksDir' = "absent"
                    /\ AppThrow(l, "dir")
            /\ UNCHANGED readyHook
  /\ UNCHANGED <<appIdle, lock, procs, singleton, pidRead, readyFired, win, exitCode,
                 observed, wrote, cleaned>>

(* line 173: fs.existsSync(htaLock) *)
AppProbe(l) ==
  /\ pc[l] = "a_probe"
  /\ IF lock.kind = "absent"
     THEN /\ pc' = [pc EXCEPT ![l] = "a_write"]
          /\ observed' = [observed EXCEPT ![l] = "Absent"]
     ELSE /\ pc' = [pc EXCEPT ![l] = "a_stat"]
          /\ UNCHANGED observed
  /\ UNCHANGED <<appIdle, locksDir, lock, procs, singleton, pidRead, readyFired, win,
                 err, exitCode, wrote, cleaned, readyHook>>

(* line 175: fs.statSync(htaLock).isFile() *)
AppStat(l) ==
  /\ pc[l] = "a_stat"
  /\ CASE lock.kind = "absent" -> AppThrow(l, "stat") /\ UNCHANGED observed
       [] lock.kind = "dir" -> /\ pc' = [pc EXCEPT ![l] = "a_reclaim"]
                               /\ observed' = [observed EXCEPT ![l] = "Malformed"]
                               /\ UNCHANGED err
       [] lock.kind = "file" -> /\ pc' = [pc EXCEPT ![l] = "a_read"]
                                /\ UNCHANGED <<observed, err>>
  /\ UNCHANGED <<appIdle, locksDir, lock, procs, singleton, pidRead, readyFired, win,
                 exitCode, wrote, cleaned, readyHook>>

(* lines 183-188: fs.readFileSync(htaLock, callback): the callback is taken for
   the options and never called, a failure is thrown *)
AppRead(l) ==
  /\ pc[l] = "a_read"
  /\ \E ok \in BOOLEAN :
       IF ok /\ lock.kind = "file"
       THEN /\ pidRead' = [pidRead EXCEPT ![l] = lock.body]
            /\ pc' = [pc EXCEPT ![l] = "a_lookup"]
            /\ UNCHANGED err
       ELSE AppThrow(l, "read") /\ UNCHANGED pidRead
  /\ UNCHANGED <<appIdle, locksDir, lock, procs, singleton, readyFired, win,
                 exitCode, observed, wrote, cleaned, readyHook>>

(* lines 189-193: await findProcess(pid) settles; proc.name is read; a live
   electron process ends this launch with process.exit(1) *)
AppLookup(l) ==
  /\ pc[l] = "a_lookup"
  /\ pidRead' = [pidRead EXCEPT ![l] = ""]
  /\ \E ok \in BOOLEAN :
       IF ~ok
       THEN /\ AppThrow(l, "query")
            /\ observed' = [observed EXCEPT ![l] = "QueryError"]
            /\ UNCHANGED <<procs, win, exitCode>>
       ELSE LET proc == findProcess(procs, pidRead[l])
                name == ProcName(proc)
            IN  /\ observed' = [observed EXCEPT ![l] = OwnerApp(procs, pidRead[l])]
                /\ CASE name = "TypeError" ->
                          AppThrow(l, "type") /\ UNCHANGED <<procs, win, exitCode>>
                     [] name = ELECTRON_NAME ->
                          /\ pc' = [pc EXCEPT ![l] = "done"]
                          /\ exitCode' = [exitCode EXCEPT ![l] = AppExitStatus]
                          /\ procs' = Drop(procs, Pid(l))
                          /\ win' = [win EXCEPT ![l] = FALSE]
                          /\ UNCHANGED err
                     [] OTHER ->
                          /\ pc' = [pc EXCEPT ![l] = "a_reclaim"]
                          /\ UNCHANGED <<procs, win, exitCode, err>>
  /\ UNCHANGED <<appIdle, locksDir, lock, singleton, readyFired, wrote, cleaned, readyHook>>

(* lines 176 and 194: rimraf.sync(htaLock) *)
AppReclaim(l) ==
  /\ pc[l] = "a_reclaim"
  /\ lock' = rimrafSync(lock).rec
  /\ cleaned' = [cleaned EXCEPT ![l] = @ \cup {"stale"}]
  /\ pc' = [pc EXCEPT ![l] = "a_write"]
  /\ UNCHANGED <<appIdle, locksDir, procs, singleton, pidRead, readyFired, win, err,
                 exitCode, observed, wrote, readyHook>>

(* lines 198-209: fs.writeFileSync(htaLock, process.pid, callback), then
   app.on('ready', createWindow.bind(this, onClose)) *)
AppWrite(l) ==
  /\ pc[l] = "a_write"
  /\ \E ok \in BOOLEAN :
       IF ok
       THEN /\ lock' = File(LockBody(l))
            /\ wrote' = [wrote EXCEPT ![l] = Append(@, lock'.body)]
            /\ readyHook' = [readyHook EXCEPT ![l] = TRUE]
            /\ pc' = [pc EXCEPT ![l] = "a_idle"]
            /\ UNCHANGED err
       ELSE AppThrow(l, "write") /\ UNCHANGED <<lock, wrote, readyHook>>
  /\ UNCHANGED <<appIdle, locksDir, procs, singleton, pidRead, readyFired, win,
                 exitCode, observed, cleaned>>

(* Electron emits 'ready' once, while the main routine awaits or after it
   ended; lines 140-160: the window is created when the handler is registered
   by then *)
AppReady(l) ==
  /\ pc[l] \in {"a_lookup", "a_idle", "a_failed"}
  /\ ~readyFired[l]
  /\ readyFired' = [readyFired EXCEPT ![l] = TRUE]
  /\ win' = [win EXCEPT ![l] = readyHook[l]]
  /\ UNCHANGED <<appIdle, locksDir, lock, procs, pc, singleton, pidRead, err, exitCode,
                 observed, wrote, cleaned, readyHook>>

(* lines 205-209 and 213-215: the window is closed; onClose resets win and,
   with a singleton key, removes the lock file; with no window left and no
   'window-all-closed' handler Electron quits *)
AppClosed(l) ==
  /\ pc[l] = "a_idle"
  /\ win[l]
  /\ IF singleton[l] # NoKey
     THEN /\ lock' = rimrafSync(lock).rec
          /\ cleaned' = [cleaned EXCEPT ![l] = @ \cup {"lock"}]
     ELSE UNCHANGED <<lock, cleaned>>
  /\ pc' = [pc EXCEPT ![l] = "done"]
  /\ exitCode' = [exitCode EXCEPT ![l] = AppQuitStatus]
  /\ procs' = Drop(procs, Pid(l))
  /\ win' = [win EXCEPT ![l] = FALSE]
  /\ UNCHANGED <<appIdle, locksDir, singleton, pidRead, readyFired, err,
                 observed, wrote, readyHook>>

NextApp ==
  \E l \in Launches :
    \/ AppLaunch(l)
    \/ AppMainSetup(l)
    \/ AppProbe(l)
    \/ AppStat(l)
    \/ AppRead(l)
    \/ AppLookup(l)
    \/ AppReclaim(l)
    \/ AppWrite(l)
    \/ AppReady(l)
    \/ AppClosed(l)

SpecApp == InitApp /\ [][NextApp]_vars

(* ---- vocabulary of the claims ---- *)

PastWrite == {"watch", "idle", "drain", "quit_lock", "quit_comm", "done"}

(* positions of the newlines of a text, with both ends as sentinels *)
Breaks(text) == {0, Len(text) + 1} \cup {i \in 1..Len(text) : text[i] = NL}

(* the k-th break in ascending order, k from 0 *)
BreakAt(text, k) ==
  CHOOSE b \in Breaks(text) : Cardinality({c \in Breaks(text) : c < b}) = k

(* the k-th token of a text: what stands between break k-1 and break k *)
Token(text, k) == SubSeq(text, BreakAt(text, k - 1) + 1, BreakAt(text, k) - 1)

(* indexes of the tokens of a text that are exactly focus *)
FocusTokens(text) ==
  IF text = <<>> THEN {}
  ELSE {k \in 1..(Cardinality(Breaks(text)) - 1) : Token(text, k) = <<FOCUS>>}

Ascending(q) == \A i, j \in 1..Len(q) : i < j => q[i] < q[j]

(* ---- claims ---- *)

(* C1: a launch that reaches LOSER never creates a window, whenever the
   'ready' event comes.  Stated as in the specification; the code lets
   'ready' run createWindow while the probe awaits the process lookup. *)
C1_LoserNeverCreatesWindow ==
  \A l \in Launches : role[l] = "LOSER" => ~readyFired[l]

(* C2: a launch whose lock record names a live process of this application
   reaches LOSER and, once terminated after a successful send, has written
   the comm record exactly once, with exactly one focus token. *)
C2_LiveOwnerMakesLoser ==
  \A l \in Launches :
    /\ observed[l] = "Live" => role[l] = "LOSER"
    /\ (pc[l] = "done" /\ role[l] = "LOSER" /\ err[l] = "none") =>
         /\ Len(sent[l]) = 1
         /\ Cardinality(FocusTokens(sent[l][1].written)) = 1

C2_Witness ==
  \E l \in Launches :
    /\ pc[l] = "done" /\ role[l] = "LOSER" /\ observed[l] = "Live"
    /\ err[l] = "none" /\ Len(sent[l]) = 1

(* C3: a launch that finds no lock record reaches WINNER, and the lock record
   it creates has its own pid, in decimal, as body. *)
C3_AbsentLockMakesWinner ==
  \A l \in Launches :
    observed[l] = "Absent" =>
      /\ role[l] = "WINNER"
      /\ (pc[l] \in PastWrite /\ err[l] = "none") => wrote[l] = <<ToString(Pid(l))>>

C3_Witness ==
  \E l \in Launches :
    /\ observed[l] = "Absent" /\ role[l] = "WINNER" /\ pc[l] = "watch"
    /\ lock = File(ToString(Pid(l)))

(* C4: a launch that finds a stale lock record (its pid is of no live process,
   or of a live process of another program) deletes the record, reaches WINNER
   and writes its own pid as the new body. *)
C4_StaleLockReclaimed ==
  \A l \in Launches :
    (observed[l] \in {"Dead", "Foreign"} /\ pc[l] # "reclaim") =>
      /\ "stale" \in cleaned[l]
      /\ role[l] = "WINNER"
      /\ (pc[l] \in PastWrite /\ err[l] = "none") => wrote[l] = <<ToString(Pid(l))>>

C4_Witness ==
  \E l \in Launches :
    /\ observed[l] = "Foreign" /\ role[l] = "WINNER" /\ pc[l] = "idle"
    /\ "stale" \in cleaned[l]
    /\ lock = File(ToString(Pid(l)))

(* C5: when a WINNER has shut down through 'quit', it removed the lock record
   and the comm record; a launch that starts after such a shutdown, with no
   other process up or starting while it probes, does not reach LOSER and,
   its main routine done without error, is WINNER. *)
C5_ShutdownFreesLock ==
  \A l \in Launches :
    /\ (pc[l] = "done" /\ quitHook[l]) => {"lock", "comm"} \subseteq cleaned[l]
    /\ after[l] => role[l] # "LOSER"
    /\ (after[l] /\ singleton[l] # NoKey /\ err[l] = "none"
        /\ pc[l] \in {"watch", "idle", "drain"}) => role[l] = "WINNER"

C5_Witness ==
  \E l, m \in Launches :
    /\ pc[l] = "done" /\ {"lock", "comm"} \subseteq cleaned[l]
    /\ after[m] /\ role[m] = "WINNER" /\ pc[m] = "idle"
    /\ lock = File(ToString(Pid(m)))

(* C6: while the handler of a watch event runs, the focus callback has been
   called once for each token of the record that is exactly focus, in file
   order, and for no other token; when the WINNER is idle again with no event
   queued, the record is gone. *)
C6_DispatchOncePerToken ==
  \A l \in Launches :
    /\ pc[l] = "drain" =>
         /\ Ascending(lastDispatch[l])
         /\ Range(lastDispatch[l]) = FocusTokens(content[l])
    /\ (pc[l] = "idle" /\ watching[l] /\ events[l] = 0) => comm = Absent

C6_Witness ==
  \E l \in Launches :
    /\ pc[l] = "drain"
    /\ Len(lastDispatch[l]) = 1
    /\ Len(content[l]) = MaxCommLen
    /\ \E k \in 1..Len(content[l]) : content[l][k] = "x"

(* C7: send appends the command and a newline to the comm record, creating
   it when absent.  Stated as in the specification; the code replaces the
   content of the record. *)
C7_SendAppends ==
  \A l \in Launches : \A i \in 1..Len(sent[l]) :
    sent[l][i].written = sent[l][i].before \o <<FOCUS, NL>>

(* C8: no focus token written for a running WINNER is deleted from the comm
   record before the WINNER dispatched it.  Stated as in the specification;
   the handler deletes whatever the record holds when it is done. *)
C8_NoLostToken ==
  \A l \in Launches : tok[l] # "lost"

(* C9: a launch that fails to create the directories or to read or write the
   lock record never creates a window and ends with a non-zero status.
   Stated as in the specification; the exception only ends the main routine. *)
C9_LockIOErrorIsFatal ==
  \A l \in Launches :
    err[l] \in {"dir", "read", "write"} =>
      /\ ~readyFired[l]
      /\ pc[l] = "done" => exitCode[l] > 0

(* C10: a LOSER that has notified the owner ends with a non-zero status.
   Stated as in the specification; app.quit() ends the process with status 0. *)
C10_LoserExitsNonZero ==
  \A l \in Launches :
    (pc[l] = "done" /\ role[l] = "LOSER" /\ Len(sent[l]) = 1) => exitCode[l] > 0

(* C11: a LOSER whose write of the focus command fails still terminates,
   creates no window and does not become WINNER.  Stated as in the
   specification; the exception of writeFileSync skips app.quit(). *)
C11_FailedSendStillQuits ==
  \A l \in Launches :
    err[l] = "send" =>
      /\ role[l] = "LOSER"
      /\ pc[l] = "done"
      /\ ~readyFired[l]

(* C12: a launch whose process-table query fails treats the recorded owner as
   not alive: it deletes the lock record, reaches WINNER and writes its own
   pid.  Stated as in the specification; the rejection of findProcess ends
   the main routine. *)
C12_QueryErrorReclaims ==
  \A l \in Launches :
    observed[l] = "QueryError" =>
      /\ "stale" \in cleaned[l]
      /\ role[l] = "WINNER"
      /\ (pc[l] \in PastWrite /\ err[l] \in {"none", "query"}) =>
           wrote[l] = <<ToString(Pid(l))>>

(* C14: a launch that finds the lock path occupied by something that is not a
   regular file deletes it without a liveness check, is WINNER and writes its
   own pid as a regular-file lock record; no error is reported on the way.
   The observation stays "Malformed" because no query of the process table
   ever replaces it; only the write of the lock record itself can fail. *)
C14_MalformedLockReclaimed ==
  \A l \in Launches :
    observed[l] = "Malformed" =>
      /\ pidRead[l] = ""
      /\ err[l] \in {"none", "write"}
      /\ pc[l] # "reclaim" =>
           /\ "stale" \in cleaned[l]
           /\ role[l] = "WINNER"
      /\ (pc[l] \in PastWrite /\ err[l] = "none") =>
           /\ wrote[l] = <<ToString(Pid(l))>>
           /\ ( /\ pc[l] \in {"watch", "idle", "drain"}
                /\ \A m \in Launches \ {l} : wrote[m] = <<>> /\ cleaned[m] = {} )
                => lock = File(ToString(Pid(l)))

C14_Witness ==
  \E l \in Launches :
    /\ observed[l] = "Malformed"
    /\ role[l] = "WINNER"
    /\ pc[l] = "idle"
    /\ "stale" \in cleaned[l]
    /\ err[l] = "none"
    /\ lock = File(ToString(Pid(l)))

(* a step taken by launch l: its position or its window changes *)
StepOf(l) ==
  \/ pc'[l] # pc[l]
  \/ readyFired'[l] # readyFired[l]
  \/ win'[l] # win[l]

(* C15: a launch without a singleton key never creates, reads, modifies or
   deletes a lock or comm record or directory: none of its steps changes the
   file system, it never probes, takes no role, installs no watcher and no
   cleanup, and raises no error; the only way it ends is the closing of the
   window it created. *)
C15_NoKeyTouchesNothing ==
  [][\A l \in Launches :
       (singleton'[l] = NoKey /\ pc'[l] # "init") =>
         /\ StepOf(l) => UNCHANGED <<locksDir, commsDir, lock, comm>>
         /\ pc'[l] \in {"main", "idle", "done"}
         /\ role'[l] = "none" /\ err'[l] = "none"
         /\ observed'[l] = "none" /\ pidRead'[l] = ""
         /\ wrote'[l] = <<>> /\ sent'[l] = <<>> /\ cleaned'[l] = {}
         /\ ~watching'[l] /\ ~quitHook'[l]
         /\ pc'[l] = "done" => readyFired'[l]]_vars

C15_Witness ==
  \E l \in Launches, m \in Launches :
    /\ singleton[l] = NoKey
    /\ pc[l] = "idle" /\ win[l]
    /\ singleton[m] # NoKey
    /\ role[m] = "WINNER" /\ pc[m] = "idle"
    /\ lock = File(ToString(Pid(m)))
    /\ comm.kind = "file"

(* C17: the shutdown cleanup is idempotent and runs at most once per process:
   a cleanup that finds a record already absent, or that follows the cleanup
   of another process, raises no error and leaves neither record behind, and
   a process whose cleanup has begun to remove records never starts it again
   and removes nothing once it has ended. *)
C17_CleanupIdempotentOnce ==
  [][\A l \in Launches :
       /\ (quitHook'[l] /\ pc'[l] \in {"quit_comm", "done"}) =>
            /\ err'[l] = "none"
            /\ "lock" \in cleaned'[l]
            /\ pc'[l] = "done" => "comm" \in cleaned'[l] /\ exitCode'[l] = AppQuitStatus
       /\ pc[l] \in {"quit_comm", "done"} => pc'[l] \in {"quit_comm", "done"}
       /\ pc[l] = "done" => (pc'[l] = "done" /\ cleaned'[l] = cleaned[l])]_vars

C17_Witness ==
  \E l \in Launches : \E m \in Launches \ {l} :
    /\ pc[l] = "done" /\ quitHook[l] /\ {"lock", "comm"} \subseteq cleaned[l]
    /\ pc[m] = "done" /\ quitHook[m]
    /\ {"nolock", "nocomm", "lock", "comm"} \subseteq cleaned[m]
    /\ err[m] = "none"
    /\ lock = Absent /\ comm = Absent

(* C18: two launches with the same key can both find the lock free, both write
   the lock record and both run as WINNER with a window (C18_Witness is such a
   state); whenever a lock record written by a launch exists, it holds the pid
   of the launch that wrote last. *)
C18_LastWriterHoldsLock ==
  /\ lastWriter # 0 => lock = File(ToString(Pid(lastWriter)))
  /\ \A l \in Launches : \A m \in Launches \ {l} :
       ( /\ role[l] = "WINNER" /\ role[m] = "WINNER"
         /\ pc[l] = "idle" /\ pc[m] = "idle"
         /\ err[l] = "none" /\ err[m] = "none"
         /\ lastWriter = m )
       => /\ wrote[l] # <<>> /\ wrote[m] # <<>>
          /\ lock.kind = "file" /\ lock.body = wrote[m][Len(wrote[m])]

C18_Witness ==
  \E l \in Launches : \E m \in Launches \ {l} :
    /\ singleton[l] = singleton[m]
    /\ observed[l] = "Absent" /\ observed[m] = "Absent"
    /\ role[l] = "WINNER" /\ role[m] = "WINNER"
    /\ pc[l] = "idle" /\ pc[m] = "idle"
    /\ win[l] /\ win[m]
    /\ wrote[l] = <<ToString(Pid(l))>> /\ wrote[m] = <<ToString(Pid(m))>>
    /\ lastWriter = m
    /\ lock = File(ToString(Pid(m)))

(* the same with a stale lock record: both launches find its owner gone *)
C18_WitnessStale ==
  \E l \in Launches : \E m \in Launches \ {l} :
    /\ observed[l] \in {"Dead", "Foreign"} /\ observed[m] \in {"Dead", "Foreign"}
    /\ role[l] = "WINNER" /\ role[m] = "WINNER"
    /\ pc[l] = "idle" /\ pc[m] = "idle"
    /\ win[l] /\ win[m]
    /\ lastWriter = m
    /\ wrote[l] # <<>>
    /\ lock = File(ToString(Pid(m)))

(* a process that completed its acquisition and has not begun to shut down *)
RunningWinner(l) ==
  /\ role[l] = "WINNER"
  /\ err[l] = "none"
  /\ pc[l] \in {"watch", "idle", "drain"}

(* C19: as long as no launch's probe-to-acquire (or probe-to-send) sequence
   has overlapped another's, at most one process runs as WINNER, and while it
   runs the lock record exists with its pid as body. *)
C19_SerialLaunchesOneWinner ==
  ~overlapped =>
    /\ Cardinality({l \in Launches : RunningWinner(l)}) <= 1
    /\ \A l \in Launches : RunningWinner(l) => lock = File(ToString(Pid(l)))

C19_Witness ==
  /\ ~overlapped
  /\ \E l \in Launches : \E m \in Launches \ {l} :
       /\ RunningWinner(l) /\ win[l]
       /\ lock = File(ToString(Pid(l)))
       /\ role[m] = "LOSER" /\ pc[m] = "done"

(* C13: an error raised while the WINNER handles a comm watch event does not
   terminate it, and later signals are still delivered: after a handler
   threw, the process is still the running WINNER with its watcher installed
   (or it ended by the regular shutdown with both records removed), and a
   focus command that is waiting in the comm record has an event queued for
   it. *)
C13_HandlerErrorNotFatal ==
  \A l \in Launches :
    watchErr[l] # "none" =>
      /\ role[l] = "WINNER"
      /\ pc[l] \in {"idle", "drain", "quit_lock", "quit_comm", "done"}
      /\ pc[l] \in {"idle", "drain"} =>
           /\ watching[l]
           /\ Pid(l) \in DOMAIN procs
           /\ exitCode[l] = -1
      /\ pc[l] = "done" =>
           /\ {"lock", "comm"} \subseteq cleaned[l]
           /\ exitCode[l] = AppQuitStatus
      /\ (pc[l] = "idle" /\ \E m \in Launches : tok[m] = "infile") => events[l] > 0

C13_Witness ==
  \E l \in Launches : \E m \in Launches \ {l} :
    /\ watchErr[l] = "recovered"
    /\ pc[l] = "idle" /\ watching[l]
    /\ tok[m] = "dispatched"
    /\ role[m] = "LOSER" /\ pc[m] = "done"

(* C16: the instance id is a function of (key, user), the hash of
   key + "." + user, and two different (key, user) pairs never yield the same
   instance id when the hash is free of collisions.  Stated as in the
   specification. *)
C16_DistinctPairsDistinctIds ==
  ids # <<>> =>
    /\ \A i \in 1..2 : ids[i] = md5hex(idArgs[i].key \o <<".">> \o idArgs[i].user)
    /\ idArgs[1] # idArgs[2] => ids[1] # ids[2]

(* what does hold: the ids differ when the users differ under one key, or the
   keys under one user *)
C16_SameKeyOrSameUser ==
  ids # <<>> =>
    /\ (idArgs[1].key = idArgs[2].key /\ idArgs[1].user # idArgs[2].user) => ids[1] # ids[2]
    /\ (idArgs[1].user = idArgs[2].user /\ idArgs[1].key # idArgs[2].key) => ids[1] # ids[2]

(* C20: in src/app/main.js a launch that finds the lock file as a regular file
   whose recorded pid belongs to no process removes the lock, writes its own
   pid to the lock file and registers the creation of the window on 'ready'.
   Stated as in the specification; proc is null for such a pid and line 185
   reads proc.name. *)
C20_AppReclaimsDeadLock ==
  \A l \in Launches :
    observed[l] = "Dead" =>
      /\ err[l] \in {"none", "write"}
      /\ pc[l] \in {"a_reclaim", "a_write", "a_idle", "a_failed", "done"}
      /\ pc[l] \in {"a_write", "a_idle", "done"} => "stale" \in cleaned[l]
      /\ pc[l] \in {"a_idle", "done"} =>
           /\ wrote[l] = <<ToString(Pid(l))>>
           /\ readyHook[l]
      /\ pc[l] = "a_failed" => err[l] = "write"

(* the same launch against a pid that belongs to a process of another name *)
C20_AppReclaimsForeignLock ==
  \A l \in Launches :
    observed[l] = "Foreign" =>
      /\ err[l] \in {"none", "write"}
      /\ pc[l] \in {"a_idle", "done"} =>
           /\ "stale" \in cleaned[l]
           /\ wrote[l] = <<ToString(Pid(l))>>
           /\ readyHook[l]

(* C21: the shutdown of a WINNER removes the lock record only when the record
   is still its own: a step that ends the removal of onQuit leaves a lock
   record alone whose body is the pid of another live process of the
   application.  Stated as in the specification; onQuit removes the lock file
   whatever it holds. *)
C21_ShutdownKeepsForeignLock ==
  [][\A l \in Launches :
       ( /\ pc[l] = "quit_lock" /\ pc'[l] # "quit_lock"
         /\ lock.kind = "file"
         /\ lock.body # ToString(Pid(l))
         /\ Owner(procs, lock.body) = "Live" )
       => lock' = lock]_vars

(* the launches that were started with the singleton key *)
Keyed == {l \in Launches : singleton[l] # NoKey /\ pc[l] # "init"}

(* ended by the regular shutdown of a WINNER or by the exit of a LOSER *)
EndedRegularly(l) ==
  /\ pc[l] = "done"
  /\ err[l] = "none"
  /\ \/ role[l] = "WINNER" /\ quitHook[l]
     \/ role[l] = "LOSER" /\ sent[l] # <<>>

(* C22: once every process launched with the key has ended by the regular
   shutdown or by the exit of a LOSER, neither the lock record nor the comm
   record exists.  Stated as in the specification; a LOSER may write the comm
   record after the cleanup of the WINNER it signals. *)
C22_NoResidueAfterAllEnded ==
  (Keyed # {} /\ \A l \in Keyed : EndedRegularly(l)) =>
    /\ lock = Absent
    /\ comm = Absent

(* the part that holds: no lock record is left behind *)
C22_NoLockResidue ==
  (Keyed # {} /\ \A l \in Keyed : EndedRegularly(l)) => lock = Absent

(* C23: a launch that reaches LOSER leaves the lock record as it is: it never
   writes it and never removes it, it installs no watcher and registers no
   shutdown cleanup, and it is only ever about to send, ended, or left running
   by a failed send. *)
C23_LoserLeavesLock ==
  \A l \in Launches :
    role[l] = "LOSER" =>
      /\ wrote[l] = <<>>
      /\ cleaned[l] = {}
      /\ lastWriter # l
      /\ ~quitHook[l] /\ ~watching[l]
      /\ pc[l] \in {"send", "idle", "done"}
      /\ pc[l] = "idle" => err[l] = "send"

C23_Witness ==
  \E l \in Launches : \E m \in Launches \ {l} :
    /\ role[l] = "LOSER" /\ pc[l] = "done" /\ sent[l] # <<>>
    /\ wrote[l] = <<>> /\ cleaned[l] = {}
    /\ role[m] = "WINNER" /\ pc[m] = "idle" /\ quitHook[m]
    /\ lastWriter = m
    /\ lock = File(ToString(Pid(m)))

(* the methods of the window *)
WindowMethods == {"win.minimize", "win.focus"}

(* C24: the window reference is null before the window is created and again
   after the window closed, and a focus command dispatched while the reference
   is null calls no method of the window: the handler that dispatched it
   called app.focus() and nothing else. *)
C24_NullWindowNeverCalled ==
  \A l \in Launches :
    /\ ~readyFired[l] => ~win[l]
    /\ pc[l] \in {"init", "main", "probe", "stat", "read"} => ~win[l]
    /\ pc[l] \in {"quit_lock", "quit_comm", "done"} => ~win[l]
    /\ (pc[l] = "drain" /\ lastDispatch[l] # <<>>) =>
         /\ "app.focus" \in focusCalls[l]
         /\ ~win[l] => focusCalls[l] \cap WindowMethods = {}
         /\ win[l] => "win.focus" \in focusCalls[l]
    /\ (pc[l] # "drain" \/ lastDispatch[l] = <<>>) => focusCalls[l] = {}

C24_Witness ==
  \E l \in Launches :
    /\ pc[l] = "drain"
    /\ lastDispatch[l] # <<>>
    /\ ~readyFired[l] /\ ~win[l]
    /\ focusCalls[l] = {"app.focus"}

====
